---- MODULE Spec2Model ----
(***************************************************************************)
(* Bloom perspective generator: the hydrator of perspective_generator.py,  *)
(* the end-to-end run of its main, and the procedural generator of         *)
(* generate_new_perspectives.py.                                           *)
(*                                                                         *)
(* Encoding of the Python values:                                          *)
(*   - a dict is a function over its keys (a record): "k in d" is          *)
(*     k \in DOMAIN d, d[k] = v is Put(d, k, v), d.pop(k) is Del(d, k);    *)
(*   - a label or relationship name is a tagged value: S(chars) for a str  *)
(*     (its characters as a sequence, so that the removal of the backtick  *)
(*     delimiter is computed character by character; the backtick itself   *)
(*     is the character written "BT" here), L(items) for a list;           *)
(*     isinstance(x, list) is IsList(x), isinstance(x, str) is IsStr(x);   *)
(*   - a dict whose iteration order matters (schema["labels"], the root    *)
(*     labels dictionary) is a sequence of [k, v] entries with distinct    *)
(*     keys, in insertion order;                                           *)
(*   - None is the value None; a raised exception is a record [error];     *)
(*   - the text the generation service answers is a sequence of            *)
(*     characters in which the JSON document is one element [json]: the    *)
(*     serialization of a value, which neither starts nor ends with a      *)
(*     backtick; "NL" is the newline character.                            *)
(***************************************************************************)
EXTENDS Integers, Sequences, FiniteSets, TLC

VARIABLES
    pc,            \* position of the run
    schema,        \* the schema document
    all_db_rels,   \* the full relationship-type set handed to the hydrator
    draft,         \* the raw perspective (or procedural configuration) given
    result,        \* what the last call returned: a document, or [error]
    first,         \* the document returned by the first hydration pass
    now,           \* the clock, int(time.time() * 1000)
    batch,         \* main: the perspectives of perspectives_data still to process
    env,           \* the environment variables that are set
    cache,         \* the schema cache file schema.json: absent, valid or corrupt
    io,            \* the I/O the run has performed so far, in order
    content,       \* main: the text the generation service answered
    perspectives_data,  \* main: the parsed list of drafts
    files,         \* the output directory: [path, doc, hydrated] per file
    report         \* the "Saved" lines printed, one per perspective written

vars == <<pc, schema, all_db_rels, draft, result, first, now, batch,
          env, cache, io, content, perspectives_data, files, report>>
\* what only main (and the write of the procedural generator) changes
runVars == <<env, cache, io, content, perspectives_data, files, report>>

\* ------------------------------------------------------------------ bounds
\* longest relationshipTypes / categories / templates list of a draft
MaxRels == 2
MaxCats == 2
MaxTmpls == 2
\* how far the clock may advance during a run
MaxTick == 1
\* most perspectives in one answer of the generation service
MaxBatch == 2
\* the clock when the run starts
Time0 == 1000
\* longest name, and longest list, given to clean_label
MaxLen == 3

\* ------------------------------------------------------------ Python dicts
Has(d, k) == k \in DOMAIN d
Put(d, k, v) == [x \in DOMAIN d \cup {k} |-> IF x = k THEN v ELSE d[x]]
Del(d, k) == [x \in DOMAIN d \ {k} |-> d[x]]
\* d.update(r)
Merge(d, r) == [x \in DOMAIN d \cup DOMAIN r |-> IF x \in DOMAIN r THEN r[x] ELSE d[x]]
EmptyDict == [x \in {} |-> TRUE]
None == [none |-> TRUE]

S(chars) == [str |-> chars]
L(items) == [list |-> items]
IsStr(x) == "str" \in DOMAIN x
IsList(x) == "list" \in DOMAIN x
IsDict(x) == ~IsStr(x) /\ ~IsList(x)

Range(s) == {s[i] : i \in DOMAIN s}
Map(s, Op(_)) == [i \in DOMAIN s |-> Op(s[i])]

\* an ordered dict: the position of key k, 0 when absent; d[k] = v
ODIndex(d, k) == IF \E i \in DOMAIN d : d[i].k = k
                 THEN CHOOSE i \in DOMAIN d : d[i].k = k
                 ELSE 0
ODPut(d, k, v) == IF ODIndex(d, k) = 0
                  THEN Append(d, [k |-> k, v |-> v])
                  ELSE [d EXCEPT ![ODIndex(d, k)] = [k |-> k, v |-> v]]
ODKeys(d) == {d[i].k : i \in DOMAIN d}

\* ------------------------------------------------------------- clean_label
Backtick == "BT"

\* the first element of a list, a str as it is
clean_label_shallow(label) ==
    IF IsList(label)
    THEN IF label.list = <<>> THEN S(<<>>) ELSE label.list[1]
    ELSE label

RECURSIVE clean_label(_)
clean_label(label) ==
    IF IsList(label)
    THEN IF label.list = <<>> THEN S(<<>>) ELSE clean_label(label.list[1])
    ELSE S(SelectSeq(label.str, LAMBDA c : c # Backtick))

\* -------------------------------------------------------- generate_metadata
generate_metadata(sch) ==
    [ pathSegments |->
        [ i \in DOMAIN sch.relationships |->
            [ source |-> clean_label(sch.relationships[i].start),
              relationshipType |-> clean_label(sch.relationships[i].type),
              target |-> clean_label(sch.relationships[i].end) ] ],
      indexes |->
        [ i \in DOMAIN sch.labels |->
            [ label |-> clean_label(sch.labels[i].k),
              type |-> "native",
              propertyKeys |->
                [ j \in DOMAIN sch.labels[i].v |->
                    [ key |-> sch.labels[i].v[j].name, metadataProp |-> FALSE ] ] ] ] ]

\* ------------------------------------------------------ hydrate_perspective
\* Each step of the function is an operator from the document before the
\* step to the document after it; hydrate_perspective composes them in the
\* order of the code.
Get(d, k, default) == IF Has(d, k) THEN d[k] ELSE default
\* Python truthiness of d.get(k) for a list-valued field
Truthy(d, k) == Has(d, k) /\ d[k] # <<>>
\* if k not in d: d[k] = v
SetDefault(d, k, v) == IF ~Has(d, k) THEN Put(d, k, v) ELSE d

EmptyName == S(<<>>)
IdLiteral == S(<<"i", "d">>)

DefaultPalette ==
    [ colors |-> << "#FFE081", "#C990C0", "#F79767", "#57C7E3", "#F16667",
                    "#D9C8AE", "#8DCC93", "#ECB5C9", "#4C8EDA", "#FFC454",
                    "#DA7194", "#569480", "#959AA1", "#D9D9D9" >>,
      currentIndex |-> 0 ]

\* 1. top-level fields (lines 96-107)
\* mutant: a new id on every pass
PerspectiveId_always(raw, uuid) == Put(raw, "id", uuid)

PerspectiveId(raw, uuid) == SetDefault(raw, "id", uuid)

TopLevelFields(raw, timestamp, uuid) ==
    Merge(PerspectiveId(raw, uuid),
          [ createdAt |-> timestamp,
            lastEditedAt |-> timestamp,
            version |-> "2.21.0",
            type |-> "STANDARD_PERSPECTIVE",
            hideUncategorisedData |-> FALSE,
            maxLimitToastMsgEnabled |-> FALSE,
            parentPerspectiveId |-> None ])

\* mutant: the name is taken as written, delimiters kept
UsedRelName_raw(r) == IF IsDict(r) THEN Get(r, "name", EmptyName) ELSE r

\* the name of one relationshipTypes entry, as lines 113-116 read it
UsedRelName(r) ==
    IF IsDict(r) THEN clean_label(Get(r, "name", EmptyName)) ELSE clean_label(r)

\* the relationships used in the perspective (lines 111-116)
used_rels(raw) == { UsedRelName(r) : r \in Range(Get(raw, "relationshipTypes", <<>>)) }

\* list(s): the elements of the set s, once each, in the set's iteration
\* order (an order the program does not choose, the same for equal sets)
SetToList(s) == CHOOSE q \in [1..Cardinality(s) -> s] : Range(q) = s

\* list(all_db_rels - used_rels) (lines 119-120)
HiddenRels(raw, all_rels) == SetToList(all_rels \ used_rels(raw))

LockDown(raw, all_rels) == Put(raw, "hiddenRelationshipTypes", HiddenRels(raw, all_rels))

\* mutant: a draft's own metadata is kept
Metadata_keep(raw, sch) == SetDefault(raw, "metadata", generate_metadata(sch))

\* 2. metadata (line 124)
Metadata(raw, sch) == Put(raw, "metadata", generate_metadata(sch))

\* 3. palette (lines 127-135)
Palette(raw) == SetDefault(raw, "palette", DefaultPalette)

\* 4. categories (lines 139-185)
\* mutant: the 0-based position
CategoryId_zero_based(idx) == idx

CategoryId(idx) == idx + 1

CategoryDefaults(cat, idx, timestamp) ==
    Merge(cat, [ id |-> CategoryId(idx),
                 createdAt |-> timestamp,
                 lastEditedAt |-> timestamp,
                 size |-> 1,
                 icon |-> "no-icon",
                 styleRules |-> <<>>,
                 textSize |-> 1,
                 textAlign |-> "top",
                 captionKeys |-> <<>> ])

CategoryLabels(cat) ==
    IF Has(cat, "labels") THEN Put(cat, "labels", Map(cat.labels, clean_label)) ELSE cat

CoerceProperty(p) ==
    IF IsStr(p) THEN [name |-> p, exclude |-> FALSE, dataType |-> "string"] ELSE p

CategoryProperties(cat) ==
    IF Has(cat, "properties")
    THEN Put(cat, "properties", Map(cat.properties, CoerceProperty)) ELSE cat

NeedsCaption(cat) == ~Has(cat, "captions") \/ cat.captions = <<>>

\* mutant: no fallback to the first label
CaptionKey_no_label(cat) ==
    IF Truthy(cat, "properties") THEN cat.properties[1].name ELSE IdLiteral

CaptionKey(cat) ==
    IF Truthy(cat, "properties") THEN cat.properties[1].name
    ELSE IF Truthy(cat, "labels") THEN cat.labels[1] ELSE IdLiteral

SynthesizedCaption(cat) ==
    [ key |-> CaptionKey(cat),
      type |-> IF Truthy(cat, "properties") THEN "property" ELSE "label",
      isCaption |-> TRUE,
      inTooltip |-> TRUE,
      styles |-> <<>>,
      isGdsData |-> FALSE ]

CaptionGds(cap) ==
    IF ~Has(cap, "isGdsData") /\ Has(cap, "type") /\ cap.type = "property"
    THEN Put(cap, "isGdsData", FALSE) ELSE cap

BackfillCaption(cap) == CaptionGds(SetDefault(cap, "styles", <<>>))

\* mutant: an empty captions list is left empty
CategoryCaptions_missing_only(cat) ==
    IF ~Has(cat, "captions") THEN Put(cat, "captions", << SynthesizedCaption(cat) >>)
    ELSE Put(cat, "captions", Map(cat.captions, BackfillCaption))

CategoryCaptions(cat) ==
    IF NeedsCaption(cat) THEN Put(cat, "captions", << SynthesizedCaption(cat) >>)
    ELSE Put(cat, "captions", Map(cat.captions, BackfillCaption))

HydrateCategory(cat, idx, timestamp) ==
    CategoryCaptions(CategoryProperties(CategoryLabels(
        CategoryDefaults(cat, idx, timestamp))))

\* cat["properties"][0]["name"] raises KeyError on a property without a name
CategoryRaises(cat) ==
    /\ NeedsCaption(cat)
    /\ Truthy(cat, "properties")
    /\ ~Has(CoerceProperty(cat.properties[1]), "name")

Categories(raw, timestamp) ==
    IF Has(raw, "categories")
    THEN Put(raw, "categories",
             [ i \in DOMAIN raw.categories |->
                 HydrateCategory(raw.categories[i], i - 1, timestamp) ])
    ELSE raw

\* 5. relationship types (lines 188-210)
\* rel["name"] raises TypeError on an entry that is no dict (a bare name
\* token), KeyError on a dict without a name
RelRaises(rel) == ~IsDict(rel) \/ ~Has(rel, "name")
RelError(rel) == IF ~IsDict(rel) THEN "TypeError" ELSE "KeyError"

RelIdName(rel) ==
    Merge(rel, [ id |-> clean_label(rel.name), name |-> clean_label(rel.name) ])

RelDefaults(rel) ==
    Merge(SetDefault(SetDefault(rel, "properties", <<>>), "styleRules", <<>>),
          [ size |-> 1, textSize |-> 1, textAlign |-> "top", captionKeys |-> <<>> ])

RelCaptions(rel) ==
    SetDefault(rel, "captions", << [ key |-> rel.name,
                                     type |-> "relationship",
                                     isCaption |-> TRUE,
                                     inTooltip |-> TRUE,
                                     styles |-> <<>> ] >>)

HydrateRel(rel) == RelCaptions(RelDefaults(RelIdName(rel)))

RelationshipTypes(raw) ==
    IF Has(raw, "relationshipTypes")
    THEN Put(raw, "relationshipTypes", Map(raw.relationshipTypes, HydrateRel))
    ELSE raw

\* 6. templates (lines 213-243)
TmplIdModulus == 100000
\* f"tmpl:{n}"
TmplIdString(n) == [prefix |-> "tmpl:", n |-> n]
GeneratedTmplId(timestamp, uuid_int) ==
    TmplIdString(timestamp + (uuid_int % TmplIdModulus))

TemplateId(tmpl, timestamp, uuid_int) ==
    SetDefault(tmpl, "id", GeneratedTmplId(timestamp, uuid_int))

TemplateCreatedAt(tmpl, timestamp) == SetDefault(tmpl, "createdAt", timestamp)

\* the rename done whether or not the template has a cypher field
TemplateCypher_always(tmpl) ==
    IF Has(tmpl, "query")
    THEN Put(Del(tmpl, "query"), "cypher", tmpl.query) ELSE tmpl

TemplateCypher(tmpl) ==
    IF Has(tmpl, "query") /\ ~Has(tmpl, "cypher")
    THEN Put(Del(tmpl, "query"), "cypher", tmpl.query) ELSE tmpl

TemplateText(tmpl) ==
    IF Has(tmpl, "description") /\ ~Has(tmpl, "text")
    THEN Put(Del(tmpl, "description"), "text", tmpl.description)
    ELSE IF ~Has(tmpl, "text")
         THEN Put(tmpl, "text", Get(tmpl, "name", "Search Phrase"))
         ELSE tmpl

TemplateFlags(tmpl) ==
    Merge(tmpl, [ isUpdateQuery |-> None,
                  isWriteTransactionChecked |-> None,
                  hasCypherErrors |-> FALSE ])

ParamSuggestionLabel(p) ==
    IF Has(p, "suggestionLabel")
    THEN Put(p, "suggestionLabel", clean_label(p.suggestionLabel)) ELSE p

HydrateParam(p) ==
    SetDefault(ParamSuggestionLabel(
        SetDefault(SetDefault(p, "collapsed", FALSE), "suggestionBoolean", FALSE)),
        "cypher", None)

TemplateParams(tmpl) ==
    IF Has(tmpl, "params") THEN Put(tmpl, "params", Map(tmpl.params, HydrateParam))
    ELSE tmpl

HydrateTemplate(tmpl, timestamp, uuid_int) ==
    TemplateParams(TemplateFlags(TemplateText(TemplateCypher(
        TemplateCreatedAt(TemplateId(tmpl, timestamp, uuid_int), timestamp)))))

Templates(raw, timestamp, uuid_ints) ==
    IF Has(raw, "templates")
    THEN Put(raw, "templates",
             [ i \in DOMAIN raw.templates |->
                 HydrateTemplate(raw.templates[i], timestamp, uuid_ints[i]) ])
    ELSE raw

\* 7. the root labels dictionary (lines 247-254)
LabelProps(props, clean_k) == [ j \in DOMAIN props |-> Put(props[j], "type", clean_k) ]

RECURSIVE CleanLabelsDict(_, _)
CleanLabelsDict(items, new_labels) ==
    IF items = <<>> THEN new_labels
    ELSE CleanLabelsDict(Tail(items),
             ODPut(new_labels, clean_label(Head(items).k),
                   LabelProps(Head(items).v, clean_label(Head(items).k))))

LabelsDictionary(raw) ==
    IF Has(raw, "labels") THEN Put(raw, "labels", CleanLabelsDict(raw.labels, <<>>))
    ELSE raw

\* 8. the other top-level fields (lines 257-262)
OtherTopLevel(raw) ==
    SetDefault(SetDefault(SetDefault(raw, "sceneActions", <<>>),
                          "hiddenRelationshipTypes", <<>>),
               "hideUncategorisedData", FALSE)

\* the first relationshipTypes entry on which line 189 raises
FirstRelRaising(rels) ==
    rels[CHOOSE i \in DOMAIN rels :
            /\ RelRaises(rels[i])
            /\ \A j \in 1..(i - 1) : ~RelRaises(rels[j])]

\* the exception hydrate_perspective raises on raw, "" when it returns
HydrateError(raw) ==
    IF \E cat \in Range(Get(raw, "categories", <<>>)) : CategoryRaises(cat)
    THEN "KeyError"
    ELSE IF \E rel \in Range(Get(raw, "relationshipTypes", <<>>)) : RelRaises(rel)
         THEN RelError(FirstRelRaising(raw.relationshipTypes))
         ELSE ""

Raise(e) == [error |-> e]

\* rnd: the values drawn in the call: uuid (str(uuid.uuid4())) and, per
\* template, ints[i] (uuid.uuid4().int)
HydrateSteps(raw, sch, all_rels, timestamp, rnd) ==
    OtherTopLevel(LabelsDictionary(Templates(RelationshipTypes(Categories(
        Palette(Metadata(LockDown(TopLevelFields(raw, timestamp, rnd.uuid), all_rels),
                         sch)),
        timestamp)), timestamp, rnd.ints)))

hydrate_perspective(raw_perspective, sch, all_rels, timestamp, rnd) ==
    IF HydrateError(raw_perspective) = ""
    THEN HydrateSteps(raw_perspective, sch, all_rels, timestamp, rnd)
    ELSE Raise(HydrateError(raw_perspective))

IsError(r) == "error" \in DOMAIN r

\* ------------------------------------------------ generate_bloom_perspective
\* a keyword argument left at its default None is a key absent from conf
ProcHiddenRels(conf) ==
    LET used_rels_list == Map(conf.relationships_config, LAMBDA r : r.type)
    IN  IF Truthy(conf, "all_known_relationships")
        THEN SelectSeq(conf.all_known_relationships,
                       LAMBDA r : r \notin Range(used_rels_list))
        ELSE <<>>

ProcLabelEntry(label, props) ==
    [ j \in DOMAIN props |->
        [ propertyKey |-> props[j].name, type |-> label, dataType |-> props[j].dataType ] ]

ProcKnownLabels(conf) ==
    IF Truthy(conf, "all_known_labels")
    THEN [ i \in DOMAIN conf.all_known_labels |->
            [ k |-> conf.all_known_labels[i].k,
              v |-> ProcLabelEntry(conf.all_known_labels[i].k,
                                   conf.all_known_labels[i].v) ] ]
    ELSE <<>>

ProcCategory(cat_conf, i, timestamp) ==
    LET label == cat_conf.label
        properties == Get(cat_conf, "properties", <<>>)
    IN  [ id |-> i + 1,
          name |-> Get(cat_conf, "name", label),
          labels |-> << label >>,
          properties |-> [ j \in DOMAIN properties |->
                            [ name |-> properties[j].name, exclude |-> FALSE,
                              dataType |-> properties[j].dataType ] ],
          createdAt |-> timestamp,
          lastEditedAt |-> timestamp,
          color |-> Get(cat_conf, "color", "#CCCCCC"),
          icon |-> "no-icon",
          size |-> 1,
          textSize |-> 1,
          textAlign |-> "top",
          captions |-> IF properties # <<>>
                       THEN << [ key |-> properties[1].name,
                                 type |-> "property",
                                 isCaption |-> TRUE,
                                 inTooltip |-> TRUE,
                                 styles |-> <<>>,
                                 isGdsData |-> FALSE ] >>
                       ELSE <<>>,
          captionKeys |-> <<>>,
          styleRules |-> <<>> ]

\* the labels dictionary after the categories loop (lines 94-98)
RECURSIVE ProcLabels(_, _)
ProcLabels(categories_config, labels) ==
    IF categories_config = <<>> THEN labels
    ELSE LET cat_conf == Head(categories_config)
         IN  ProcLabels(Tail(categories_config),
                 IF cat_conf.label \notin ODKeys(labels)
                 THEN ODPut(labels, cat_conf.label,
                            ProcLabelEntry(cat_conf.label, Get(cat_conf, "properties", <<>>)))
                 ELSE labels)

ProcIndexes(categories_config) ==
    [ i \in DOMAIN categories_config |->
        [ label |-> categories_config[i].label,
          type |-> "native",
          propertyKeys |->
            LET properties == Get(categories_config[i], "properties", <<>>)
            IN  [ j \in DOMAIN properties |->
                    [ key |-> properties[j].name, metadataProp |-> FALSE ] ] ] ]

ProcRelObj(rel_type, color) ==
    [ id |-> rel_type,
      name |-> rel_type,
      color |-> color,
      properties |-> <<>>,
      size |-> 1,
      textSize |-> 1,
      textAlign |-> "top",
      captions |-> << [ key |-> rel_type,
                        type |-> "relationship",
                        isCaption |-> TRUE,
                        inTooltip |-> TRUE,
                        styles |-> <<>> ] >>,
      captionKeys |-> <<>>,
      styleRules |-> <<>> ]

\* the shown relationships, then the hidden ones as well (lines 108-151)
ProcRelationshipTypes(relationships_config, hidden_rels) ==
    Map(relationships_config, LAMBDA r : ProcRelObj(r.type, "#A5ABB6"))
        \o Map(hidden_rels, LAMBDA h : ProcRelObj(h, "#959AA1"))

generate_bloom_perspective(conf, timestamp, uuid) ==
    LET hidden_rels == ProcHiddenRels(conf)
    IN  [ name |-> conf.name,
          version |-> "2.21.0",
          id |-> uuid,
          createdAt |-> timestamp,
          lastEditedAt |-> timestamp,
          type |-> "STANDARD_PERSPECTIVE",
          hideUncategorisedData |-> FALSE,
          maxLimitToastMsgEnabled |-> FALSE,
          parentPerspectiveId |-> None,
          categories |-> [ i \in DOMAIN conf.categories_config |->
                            ProcCategory(conf.categories_config[i], i - 1, timestamp) ],
          labels |-> ProcLabels(conf.categories_config, ProcKnownLabels(conf)),
          relationshipTypes |-> ProcRelationshipTypes(conf.relationships_config, hidden_rels),
          templates |-> <<>>,
          sceneActions |-> <<>>,
          hiddenRelationshipTypes |-> hidden_rels,
          palette |-> DefaultPalette,
          metadata |-> [ pathSegments |-> <<>>,
                         indexes |-> ProcIndexes(conf.categories_config) ] ]

\* ---------------------------------------------------------- the run of main
NEO4J_VARS == {"NEO4J_URI", "NEO4J_USERNAME", "NEO4J_PASSWORD"}
GEMINI_VARS == {"GEMINI_API_KEY", "GEMINI_BASE_URL"}

\* schema_fetcher.fetch_schema(): what it returns or raises, the I/O it
\* performs and the cache it leaves.  db is the schema the database (and a
\* valid cache) holds, db_up whether the database answers, saved whether the
\* cache file could be written
fetch_schema(environ, cache_state, db, db_up, saved) ==
    IF cache_state = "valid"
    THEN [io |-> <<"read_cache">>, cache |-> cache_state, result |-> db]
    ELSE IF ~(NEO4J_VARS \subseteq environ)
    THEN [io |-> IF cache_state = "corrupt" THEN <<"read_cache">> ELSE <<>>,
          cache |-> cache_state, result |-> Raise("ValueError")]
    ELSE IF ~db_up
    THEN [io |-> (IF cache_state = "corrupt" THEN <<"read_cache">> ELSE <<>>)
                    \o <<"db_connect">>,
          cache |-> cache_state, result |-> Raise("ServiceUnavailable")]
    ELSE [io |-> (IF cache_state = "corrupt" THEN <<"read_cache">> ELSE <<>>)
                    \o <<"db_connect", "db_query", "db_query", "db_query", "write_cache">>,
          cache |-> IF saved THEN "valid" ELSE cache_state, result |-> db]

\* load_example_perspective(): the example file is opened, a failure is caught
load_example_perspective == <<"read_example">>

\* get_llm_client()
get_llm_client(environ) ==
    IF GEMINI_VARS \subseteq environ THEN [client |-> TRUE] ELSE Raise("ValueError")

\* the characters of a text
Chars(s) == [i \in DOMAIN s |-> [ch |-> s[i]]]
Fence == Chars(<<"BT", "BT", "BT">>)
FenceJson == Chars(<<"BT", "BT", "BT", "j", "s", "o", "n">>)
Newline == Chars(<<"NL">>)
Whitespace == Range(Chars(<<" ", "NL">>))
\* the serialization of a JSON value: kind is "list" or "object"
JsonText(kind, value) == << [json |-> value, kind |-> kind] >>
IsJsonText(c) == "json" \in DOMAIN c

startswith(s, prefix) == Len(s) >= Len(prefix) /\ SubSeq(s, 1, Len(prefix)) = prefix
endswith(s, suffix) ==
    Len(s) >= Len(suffix) /\ SubSeq(s, Len(s) - Len(suffix) + 1, Len(s)) = suffix
\* s.strip() for the characters W
strip(s, W) ==
    IF \A i \in DOMAIN s : s[i] \in W
    THEN <<>>
    ELSE SubSeq(s, CHOOSE i \in DOMAIN s : s[i] \notin W /\ \A j \in 1..(i - 1) : s[j] \in W,
                   CHOOSE i \in DOMAIN s : s[i] \notin W /\ \A j \in (i + 1)..Len(s) : s[j] \in W)

\* main, lines 313-318
DropOpeningFence(text) ==
    IF startswith(text, FenceJson) THEN SubSeq(text, 8, Len(text)) ELSE text
DropClosingFence(text) ==
    IF endswith(text, Fence) THEN SubSeq(text, 1, Len(text) - 3) ELSE text
StripFence(text) == strip(DropClosingFence(DropOpeningFence(text)), Whitespace)

\* json.loads(text): surrounding whitespace is accepted, anything else
\* around the document is not
json_loads(text) ==
    IF Len(strip(text, Whitespace)) = 1 /\ IsJsonText(strip(text, Whitespace)[1])
    THEN strip(text, Whitespace)[1]
    ELSE Raise("JSONDecodeError")

\* main, lines 321-325
EnsureList(parsed) == IF parsed.kind = "object" THEN << parsed.json >> ELSE parsed.json
ParseAnswer(text) ==
    IF IsError(json_loads(StripFence(text)))
    THEN json_loads(StripFence(text))
    ELSE [list |-> EnsureList(json_loads(StripFence(text)))]

\* main, lines 349-352: the output path of a perspective
Alnum ==
    {"a", "b", "c", "d", "e", "f", "g", "h", "i", "j", "k", "l", "m", "n", "o", "p", "q",
     "r", "s", "t", "u", "v", "w", "x", "y", "z", "A", "B", "C", "D", "E", "F", "G", "H",
     "I", "J", "K", "L", "M", "N", "O", "P", "Q", "R", "S", "T", "U", "V", "W", "X", "Y",
     "Z", "0", "1", "2", "3", "4", "5", "6", "7", "8", "9"}
safe_name(name) ==
    Map(strip(SelectSeq(name.str, LAMBDA c : c \in Alnum \cup {" ", "-", "_"}), {" "}),
        LAMBDA c : IF c = " " THEN "_" ELSE c)
output_path(name) == S(safe_name(name) \o <<".", "j", "s", "o", "n">>)

\* open(path, "w") and json.dump: the file at path now holds doc; hydrated is
\* the number of passes through hydrate_perspective the document went through
PathIndex(fs, path) == { i \in DOMAIN fs : fs[i].path = path }
WriteFile(fs, path, doc, hydrated) ==
    IF PathIndex(fs, path) = {}
    THEN Append(fs, [path |-> path, doc |-> doc, hydrated |-> hydrated])
    ELSE [i \in DOMAIN fs |->
            IF fs[i].path = path
            THEN [path |-> path, doc |-> doc, hydrated |-> hydrated]
            ELSE fs[i]]

\* ------------------------------------------------------------------ inputs
SeqsUpTo(M, n) == UNION { [1..k -> M] : k \in 0..n }
Restrict(d, K) == [k \in K |-> d[k]]

\* names, with and without the backtick delimiters
SOLD_BY == S(<<"S", "O", "L", "D", "_", "B", "Y">>)
SOLD_BY_bt == S(<<"BT", "S", "O", "L", "D", "_", "B", "Y", "BT">>)
RETURNED == S(<<"R", "E", "T", "U", "R", "N", "E", "D">>)
Seller == S(<<"S", "e", "l", "l", "e", "r">>)
Seller_bt == S(<<"BT", "S", "e", "l", "l", "e", "r", "BT">>)
Product == S(<<"P", "r", "o", "d", "u", "c", "t">>)
seller_id == S(<<"s", "e", "l", "l", "e", "r", "_", "i", "d">>)
seller_city == S(<<"s", "e", "l", "l", "e", "r", "_", "c", "i", "t", "y">>)
\* names of perspectives
SellerView == S(<<"S", "e", "l", "l", "e", "r", " ", "V", "i", "e", "w">>)
Delimited == S(<<" ", "D", "e", "l", "i", "m", "i", "t", "e", "d", "!">>)
BareRels == S(<<"B", "a", "r", "e", "/", "R", "e", "l", "s">>)

RelNames == {SOLD_BY, SOLD_BY_bt, RETURNED}

\* the scenario's schema; a schema whose names carry delimiters or are lists;
\* the empty schema
SchemaScenario ==
    [ labels |-> << [k |-> Seller, v |-> << [name |-> seller_id, type |-> "String"] >>] >>,
      relationships |-> << [start |-> Seller, type |-> SOLD_BY, end |-> Product] >> ]
SchemaDelimited ==
    [ labels |-> << [k |-> Seller_bt, v |-> << [name |-> seller_id, type |-> "String"],
                                               [name |-> seller_city, type |-> "String"] >>],
                    [k |-> Product, v |-> <<>>] >>,
      relationships |-> << [start |-> L(<<Seller_bt>>), type |-> SOLD_BY_bt, end |-> L(<<>>)],
                           [start |-> Product, type |-> RETURNED, end |-> L(<<L(<<Seller>>)>>)] >> ]
SchemaEmpty == [ labels |-> <<>>, relationships |-> <<>> ]
Schemas == {SchemaScenario, SchemaDelimited, SchemaEmpty}

\* entries of a draft's relationshipTypes: objects with a name, a bare name
\* token, an object without a name
RelMenu ==
    { [name |-> SOLD_BY, color |-> "#A5ABB6"],
      [name |-> SOLD_BY_bt],
      [name |-> L(<<RETURNED>>), properties |-> << "since" >>,
       captions |-> << [key |-> RETURNED, type |-> "relationship"] >>],
      SOLD_BY_bt,
      [color |-> "#A5ABB6"] }

\* a draft's categories
CatEmpty == EmptyDict
CatScenario == [label |-> Seller]
CatLabelled == [labels |-> <<Seller_bt, Product>>, id |-> 7]
CatProps ==
    [ name |-> "Sellers", labels |-> <<Seller>>,
      properties |-> << seller_id, [name |-> seller_city, exclude |-> TRUE] >>,
      captions |-> <<>> ]
CatCaptioned ==
    [ labels |-> <<Seller>>, properties |-> << [name |-> seller_id, exclude |-> FALSE,
                                                dataType |-> "string"] >>,
      captions |-> << [key |-> seller_id, type |-> "property", isCaption |-> TRUE],
                      [key |-> Seller, type |-> "label", styles |-> << "bold" >>] >> ]
CatNamelessProp == [ properties |-> << [dataType |-> "string"] >> ]
CatMenu == {CatEmpty, CatScenario, CatLabelled, CatProps, CatCaptioned, CatNamelessProp}

\* a draft's root labels dictionary
LabelsStale ==
    << [k |-> Seller_bt, v |-> << [propertyKey |-> seller_id, type |-> Seller_bt,
                                   dataType |-> "string"] >>] >>
LabelsColliding ==
    << [k |-> Seller_bt, v |-> <<>>],
       [k |-> Product, v |-> <<>>],
       [k |-> Seller, v |-> << [propertyKey |-> seller_id, dataType |-> "string"] >>] >>
LabelsMenu == {LabelsStale, LabelsColliding}

\* a draft's templates
TmplEmpty == EmptyDict
TmplQuery == [name |-> "Find sellers", query |-> "MATCH (s:Seller) RETURN s",
              description |-> "All sellers"]
TmplGiven ==
    [ id |-> TmplIdString(7), createdAt |-> 5, name |-> "By city",
      cypher |-> "MATCH (s:Seller {seller_city: $c}) RETURN s", text |-> "Sellers in $c",
      params |-> << [name |-> "c", suggestionLabel |-> Seller_bt],
                    [name |-> "d", collapsed |-> TRUE, suggestionBoolean |-> TRUE,
                     cypher |-> [text |-> "RETURN 1"]] >> ]
TmplBoth == [ query |-> "Q", cypher |-> "C", description |-> "D", text |-> "T" ]
TmplNamed == [ name |-> "Top sellers" ]
TmplMenu == {TmplEmpty, TmplQuery, TmplGiven, TmplBoth, TmplNamed}

\* a draft with every optional top-level field present
FullDraft ==
    [ name |-> SellerView,
      id |-> "given-id",
      categories |-> << CatLabelled >>,
      labels |-> LabelsStale,
      relationshipTypes |-> << [name |-> SOLD_BY_bt] >>,
      templates |-> << TmplGiven >>,
      sceneActions |-> << "action" >>,
      palette |-> [colors |-> << "#000000" >>, currentIndex |-> 1],
      metadata |-> [pathSegments |-> << [source |-> Product, relationshipType |-> RETURNED,
                                         target |-> Seller] >>,
                    indexes |-> <<>>],
      hiddenRelationshipTypes |-> << SOLD_BY >>,
      hideUncategorisedData |-> TRUE,
      maxLimitToastMsgEnabled |-> TRUE,
      parentPerspectiveId |-> "parent" ]
DisplayFlags == {"hideUncategorisedData", "maxLimitToastMsgEnabled", "parentPerspectiveId"}
OptionalFields ==
    {"id", "categories", "labels", "relationshipTypes", "templates", "sceneActions",
     "palette", "metadata", "hiddenRelationshipTypes"}
NamedDraft == [name |-> SellerView]

\* drafts omitting any subset of the optional top-level fields
TopDrafts ==
    { Restrict(FullDraft, {"name"} \cup K \cup F) :
        K \in SUBSET OptionalFields, F \in {{}, DisplayFlags} }
RelDrafts ==
    {NamedDraft} \cup
    { Put(NamedDraft, "relationshipTypes", rels) : rels \in SeqsUpTo(RelMenu, MaxRels) }
MetaDrafts == {NamedDraft, Put(NamedDraft, "metadata", FullDraft.metadata),
               Put(NamedDraft, "metadata", [pathSegments |-> <<>>, indexes |-> <<>>])}
CatDrafts ==
    { Put(d, "categories", cats) :
        d \in {NamedDraft} \cup { Put(NamedDraft, "labels", l) : l \in LabelsMenu },
        cats \in SeqsUpTo(CatMenu, MaxCats) }
TmplDrafts ==
    { Put(NamedDraft, "templates", tmpls) : tmpls \in SeqsUpTo(TmplMenu, MaxTmpls) }

\* the spec's round-trip scenario
ScenarioDraft ==
    [ name |-> SellerView, categories |-> << CatScenario >>,
      relationshipTypes |-> << [name |-> SOLD_BY] >> ]
ScenarioRels == {SOLD_BY, RETURNED}
\* the scenario with its category's label given in the labels list
ScenarioDraftLabels ==
    [ name |-> SellerView, categories |-> << [labels |-> <<Seller>>] >>,
      relationshipTypes |-> << [name |-> SOLD_BY] >> ]

\* the values the calls draw: str(uuid.uuid4()), uuid.uuid4().int
UuidStrs == {"uuid-1", "uuid-2"}
UuidInts == {0, 1, TmplIdModulus, TmplIdModulus + 1}

\* perspectives the generation service may answer with
MainDrafts ==
    { ScenarioDraft,
      [ name |-> Delimited, relationshipTypes |-> << [name |-> SOLD_BY_bt] >>,
        templates |-> << TmplEmpty >> ],
      [ name |-> BareRels, relationshipTypes |-> << RETURNED >> ] }

\* what the generation service may answer: a JSON list of drafts or one bare
\* object, unfenced or wrapped in a markdown code fence (opening fence with or
\* without the language tag and newline, closing fence with or without a
\* newline before and after it), or no JSON at all
Openings == { <<>>, FenceJson \o Newline, FenceJson, Fence \o Newline }
Closings == { <<>>, Newline \o Fence, Fence, Newline \o Fence \o Newline }
JsonLists == { JsonText("list", b) : b \in SeqsUpTo(MainDrafts, MaxBatch) }
JsonObjects == { JsonText("object", d) : d \in MainDrafts }
FencedBodies == { JsonText("list", << d >>) : d \in MainDrafts } \cup JsonObjects
Answers ==
    JsonLists \cup JsonObjects
    \cup { o \o b \o c : o \in Openings, b \in FencedBodies, c \in Closings }
    \cup { Chars(<<"s", "o", "n">>) }

\* the environment: every variable set, or one of the required ones missing
EnvVars == NEO4J_VARS \cup GEMINI_VARS
Environments == {EnvVars} \cup { EnvVars \ {v} : v \in EnvVars }
CacheStates == {"absent", "valid", "corrupt"}

\* configurations of the procedural generator
ProcCatMenu ==
    { [ label |-> Seller, color |-> "#C990C0",
        properties |-> << [name |-> seller_id, dataType |-> "string"],
                          [name |-> seller_city, dataType |-> "string"] >> ],
      [ label |-> Product ] }
ProcRelMenu == { [type |-> SOLD_BY], [type |-> RETURNED] }
ProcKnownRels == { <<>>, <<SOLD_BY, RETURNED>>, <<RETURNED, SOLD_BY_bt, RETURNED>> }
ProcKnownLabelsMenu ==
    { << [k |-> Seller, v |-> << [name |-> seller_id, dataType |-> "string"] >>] >> }
ProcConfs ==
    LET base == { [ name |-> "Seller Performance", categories_config |-> cats,
                    relationships_config |-> rels,
                    output_file |-> S(<<"S", "e", "l", "l", "e", "r", "_", "P", "e", "r",
                                        "f", "o", "r", "m", "a", "n", "c", "e", ".", "j",
                                        "s", "o", "n">>) ] :
                    cats \in SeqsUpTo(ProcCatMenu, MaxCats),
                    rels \in SeqsUpTo(ProcRelMenu, MaxRels) }
        with_rels == base \cup { Put(c, "all_known_relationships", k) :
                                   c \in base, k \in ProcKnownRels }
    IN  with_rels \cup { Put(c, "all_known_labels", l) :
                           c \in with_rels, l \in ProcKnownLabelsMenu }

\* ----------------------------------------------------------- state machine
\* what one call may draw: uuid4 never returns the same value twice
Injective(f) == \A i, j \in DOMAIN f : i # j => f[i] # f[j]
Draws(d) ==
    [ uuid : UuidStrs,
      ints : { f \in [DOMAIN Get(d, "templates", <<>>) -> UuidInts] : Injective(f) } ]

\* the calls hydrate_perspective(draft, schema, all_db_rels) explored
CallFields ==
    /\ draft \in TopDrafts \cup CatDrafts \cup TmplDrafts
    /\ schema = SchemaScenario
    /\ all_db_rels = ScenarioRels

CallRels ==
    /\ draft \in RelDrafts
    /\ schema = SchemaScenario
    /\ all_db_rels \in SUBSET RelNames

CallSchemas ==
    /\ draft \in MetaDrafts \cup {ScenarioDraft, ScenarioDraftLabels}
    /\ schema \in Schemas
    /\ all_db_rels = ScenarioRels

\* outside main nothing is fetched: the environment is complete, no cache
NoRun ==
    /\ env = EnvVars
    /\ cache = "absent"
    /\ io = <<>>
    /\ content = <<>>
    /\ perspectives_data = <<>>

InitCall ==
    /\ pc = "call"
    /\ (CallFields \/ CallRels \/ CallSchemas)
    /\ batch = <<>>
    /\ NoRun

\* main: schema is the schema the database (and a valid cache file) holds
InitMain ==
    /\ pc = "main"
    /\ schema \in Schemas
    /\ draft = None
    /\ all_db_rels = {}
    /\ batch = <<>>
    /\ env \in Environments
    /\ cache \in CacheStates
    /\ io = <<>>
    /\ content = <<>>
    /\ perspectives_data = <<>>

InitProc ==
    /\ pc = "proc"
    /\ draft \in ProcConfs
    /\ schema = SchemaEmpty
    /\ all_db_rels = {}
    /\ batch = <<>>
    /\ NoRun

Init ==
    /\ result = None
    /\ first = None
    /\ now = Time0
    /\ files = <<>>
    /\ report = <<>>
    /\ (InitCall \/ InitMain \/ InitProc)

\* time passes
Tick ==
    /\ pc \in {"hydrated", "main_loop"}
    /\ now < Time0 + MaxTick
    /\ now' = now + 1
    /\ UNCHANGED <<pc, schema, all_db_rels, draft, result, first, batch, runVars>>

\* a call hydrate_perspective(draft, schema, all_db_rels)
Hydrate ==
    /\ pc = "call"
    /\ \E rnd \in Draws(draft) :
         result' = hydrate_perspective(draft, schema, all_db_rels, now, rnd)
    /\ first' = result'
    /\ pc' = IF IsError(result') THEN "raised" ELSE "hydrated"
    /\ UNCHANGED <<schema, all_db_rels, draft, now, batch, runVars>>

\* the document returned is hydrated again, same schema and relationship set
Rehydrate ==
    /\ pc = "hydrated"
    /\ \E rnd \in Draws(first) :
         result' = hydrate_perspective(first, schema, all_db_rels, now, rnd)
    /\ pc' = "rehydrated"
    /\ UNCHANGED <<schema, all_db_rels, draft, first, now, batch, runVars>>

\* main, lines 270-278: the schema is fetched; a failure is printed and ends
\* the run
MainFetchSchema ==
    /\ pc = "main"
    /\ \E db_up \in BOOLEAN, saved \in BOOLEAN :
         LET fetched == fetch_schema(env, cache, schema, db_up, saved)
         IN  /\ io' = io \o fetched.io
             /\ cache' = fetched.cache
             /\ IF IsError(fetched.result)
                THEN pc' = "main_fetch_failed" /\ result' = fetched.result
                ELSE pc' = "main_fetched" /\ result' = result
    /\ UNCHANGED <<schema, all_db_rels, draft, first, now, batch, env, content,
                   perspectives_data, files, report>>

\* main, lines 281-296: the prompt is built, the example file is read
MainLoadExample ==
    /\ pc = "main_fetched"
    /\ io' = io \o load_example_perspective
    /\ pc' = "main_prompted"
    /\ UNCHANGED <<schema, all_db_rels, draft, result, first, now, batch, env, cache,
                   content, perspectives_data, files, report>>

\* main, line 300: the client is configured; its ValueError is not caught
MainGetClient ==
    /\ pc = "main_prompted"
    /\ IF IsError(get_llm_client(env))
       THEN pc' = "main_config_error" /\ result' = get_llm_client(env)
       ELSE pc' = "main_client" /\ result' = result
    /\ UNCHANGED <<schema, all_db_rels, draft, first, now, batch, runVars>>

\* main, lines 303-333: the generation service answers; the answer is
\* stripped of its fence and parsed; a parse error is printed and ends the run
MainCallLLM ==
    /\ pc = "main_client"
    /\ content' \in Answers
    /\ io' = Append(io, "llm_call")
    /\ IF IsError(ParseAnswer(content'))
       THEN /\ pc' = "main_parse_error"
            /\ result' = ParseAnswer(content')
            /\ UNCHANGED <<perspectives_data, batch>>
       ELSE /\ pc' = "main_parsed"
            /\ perspectives_data' = ParseAnswer(content').list
            /\ batch' = perspectives_data'
            /\ result' = result
    /\ UNCHANGED <<schema, all_db_rels, draft, first, now, env, cache, files, report>>

\* main, line 339: the full relationship set, taken from the schema
MainAllDbRels(sch) == { sch.relationships[i].type : i \in DOMAIN sch.relationships }

\* main, lines 339-342
MainRels ==
    /\ pc = "main_parsed"
    /\ all_db_rels' = MainAllDbRels(schema)
    /\ pc' = "main_loop"
    /\ UNCHANGED <<schema, draft, result, first, now, batch, runVars>>

\* main, lines 344-358: one turn of the loop: the draft is hydrated, its file
\* name computed, the file written and "Saved" printed.  Nothing catches an
\* exception of the hydrator, of final_perspective["name"] or of the write
\* (disk_ok false): it ends the run
MainHydrate ==
    /\ pc = "main_loop"
    /\ batch # <<>>
    /\ draft' = Head(batch)
    /\ batch' = Tail(batch)
    /\ \E rnd \in Draws(Head(batch)), disk_ok \in BOOLEAN :
         LET final_perspective ==
                 hydrate_perspective(Head(batch), schema, all_db_rels, now, rnd)
         IN  IF IsError(final_perspective)
             THEN /\ result' = final_perspective
                  /\ pc' = "main_raised"
                  /\ UNCHANGED <<io, files, report>>
             ELSE IF ~Has(final_perspective, "name")
             THEN /\ result' = Raise("KeyError")
                  /\ pc' = "main_raised"
                  /\ UNCHANGED <<io, files, report>>
             ELSE /\ result' = final_perspective
                  /\ io' = Append(io, "write_output")
                  /\ IF disk_ok
                     THEN /\ files' = WriteFile(files, output_path(final_perspective.name),
                                                final_perspective, 1)
                          /\ report' = Append(report, output_path(final_perspective.name))
                          /\ pc' = "main_loop"
                     ELSE /\ pc' = "main_write_failed"
                          /\ UNCHANGED <<files, report>>
    /\ UNCHANGED <<schema, all_db_rels, first, now, env, cache, content, perspectives_data>>

\* main, line 360
MainDone ==
    /\ pc = "main_loop"
    /\ batch = <<>>
    /\ pc' = "main_done"
    /\ UNCHANGED <<schema, all_db_rels, draft, result, first, now, batch, runVars>>

\* the procedural path: generate_bloom_perspective(**draft) builds the
\* document and writes it to output_file; a failing write raises
Generate ==
    /\ pc = "proc"
    /\ \E uuid \in UuidStrs, disk_ok \in BOOLEAN :
         /\ io' = Append(io, "write_output")
         /\ IF disk_ok
            THEN /\ result' = generate_bloom_perspective(draft, now, uuid)
                 /\ files' = WriteFile(files, draft.output_file, result', 0)
                 /\ pc' = "generated"
            ELSE /\ result' = Raise("OSError")
                 /\ files' = files
                 /\ pc' = "generate_failed"
    /\ UNCHANGED <<schema, all_db_rels, draft, first, now, batch, env, cache, content,
                   perspectives_data, report>>

Next ==
    \/ Tick
    \/ Hydrate
    \/ Rehydrate
    \/ MainFetchSchema
    \/ MainLoadExample
    \/ MainGetClient
    \/ MainCallLLM
    \/ MainRels
    \/ MainHydrate
    \/ MainDone
    \/ Generate

Spec == Init /\ [][Next]_vars

\* ------------------------------------------------- clean_label on its own
\* the forms a name comes in: a str with or without backticks, a list of
\* names, a list of lists, the empty list
NameChars == {"a", "B", Backtick}
NameStrs == { S(s) : s \in SeqsUpTo(NameChars, MaxLen) }
NameLists == { L(l) : l \in SeqsUpTo({S(<<"a">>), S(<<Backtick, "B", Backtick>>)}, MaxLen) }
NestedLists ==
    { L(<<x>>) : x \in NameLists } \cup { L(<<x, S(<<"a">>)>>) : x \in NameLists }
NameForms == NameStrs \cup NameLists \cup NestedLists

InitClean ==
    /\ pc = "clean"
    /\ draft \in NameForms
    /\ schema = SchemaEmpty
    /\ all_db_rels = {}
    /\ batch = <<>>
    /\ NoRun
    /\ result = None
    /\ first = None
    /\ now = Time0
    /\ files = <<>>
    /\ report = <<>>

\* clean_label(draft)
CleanLabel ==
    /\ pc = "clean"
    /\ result' = clean_label(draft)
    /\ first' = result'
    /\ pc' = "cleaned"
    /\ UNCHANGED <<schema, all_db_rels, draft, now, batch, runVars>>

\* clean_label applied to what clean_label returned
CleanAgain ==
    /\ pc = "cleaned"
    /\ result' = clean_label(first)
    /\ pc' = "recleaned"
    /\ UNCHANGED <<schema, all_db_rels, draft, first, now, batch, runVars>>

NextClean == CleanLabel \/ CleanAgain

SpecClean == InitClean /\ [][NextClean]_vars

\* ------------------------------------------------------------------ claims
\* a call of hydrate_perspective on draft has returned the document result
HydrateReturned ==
    /\ pc \in {"hydrated", "main_loop", "main_done"}
    /\ result # None
    /\ ~IsError(result)
\* a call of hydrate_perspective on draft has returned or raised
HydrateCalled == pc \in {"hydrated", "raised", "main_raised"} \/ HydrateReturned
\* a perspective document was produced, on either path
Produced == result # None /\ ~IsError(result)

DraftRels == Range(Get(draft, "relationshipTypes", <<>>))
DraftCats == Get(draft, "categories", <<>>)
DraftTmpls == Get(draft, "templates", <<>>)
HiddenSet == Range(result.hiddenRelationshipTypes)
ShownNames == { r.name : r \in Range(Get(result, "relationshipTypes", <<>>)) }
\* clean_label(name) for the entries of the draft's relationshipTypes, an
\* entry being an object with a name or a bare name token
CleanedDraftRelNames == { clean_label(IF IsDict(r) THEN r.name ELSE r) : r \in DraftRels }
NamedOrToken(r) == IsDict(r) => Has(r, "name")
CategoriesAccepted == \A cat \in Range(DraftCats) : ~CategoryRaises(cat)

\* C1: for every draft whose relationshipTypes entries are objects with a
\* name or bare name tokens, hydrate_perspective returns a document whose
\* hiddenRelationshipTypes, as a set, is all_db_rels minus the cleaned names
\* of the draft's relationshipTypes.
C1_HiddenIsDifference ==
    (HydrateCalled /\ CategoriesAccepted /\ \A r \in DraftRels : NamedOrToken(r))
        => /\ ~IsError(result)
           /\ HiddenSet = all_db_rels \ CleanedDraftRelNames

\* C1, the case that fails: a bare name token among the relationshipTypes
C1_BareTokenRaises ==
    /\ pc = "raised"
    /\ \E r \in DraftRels : IsStr(r)
    /\ \A r \in DraftRels : NamedOrToken(r)
    /\ result = Raise("TypeError")

\* C2 as stated: in every document produced, on either path, no hidden name
\* is the name of an entry of the document's relationshipTypes.
C2_HiddenDisjointFromShown == Produced => HiddenSet \cap ShownNames = {}

\* C2 as amended: a document hydrate_perspective returns has its hidden names
\* disjoint from the names of its relationshipTypes; a document of the
\* procedural generator has its hidden names disjoint from the configured
\* relationship types, and every hidden name is the name of an appended
\* relationshipTypes entry.
C2_HiddenDisjointFromUsed ==
    /\ (Produced /\ pc # "generated") => HiddenSet \cap ShownNames = {}
    /\ pc = "generated" =>
         /\ HiddenSet \cap { r.type : r \in Range(draft.relationships_config) } = {}
         /\ HiddenSet \subseteq ShownNames

C2_Witness ==
    /\ pc = "hydrated"
    /\ result.hiddenRelationshipTypes # <<>>
    /\ Len(Get(result, "relationshipTypes", <<>>)) = 2
    /\ \E r \in DraftRels : r.name = SOLD_BY_bt

\* C3: in a run of main, no relationship type the draft references is listed
\* in hiddenRelationshipTypes, whether the backticks wrap the name in the
\* draft, the type in the schema, both or neither.
C3_ReferencedNeverHidden ==
    (HydrateReturned /\ pc \in {"main_loop", "main_done"})
        => \A h \in HiddenSet : clean_label(h) \notin ShownNames

C3_DelimitedSchemaType ==
    /\ pc = "main_loop"
    /\ HydrateReturned
    /\ SOLD_BY_bt \in all_db_rels
    /\ SOLD_BY \in ShownNames
    /\ SOLD_BY_bt \in HiddenSet

\* C4: the metadata of a hydrated document is generate_metadata(schema),
\* whatever the draft: one path segment per relationship triple of the
\* schema, in list order, with cleaned names, and one index entry per schema
\* label, in iteration order, listing every property name of the label with
\* metadataProp false.
C4_MetadataFromSchema ==
    HydrateReturned =>
        LET segs == result.metadata.pathSegments
            idxs == result.metadata.indexes
        IN  /\ DOMAIN segs = DOMAIN schema.relationships
            /\ \A i \in DOMAIN segs :
                 segs[i] = [ source |-> clean_label(schema.relationships[i].start),
                             relationshipType |-> clean_label(schema.relationships[i].type),
                             target |-> clean_label(schema.relationships[i].end) ]
            /\ DOMAIN idxs = DOMAIN schema.labels
            /\ \A i \in DOMAIN idxs :
                 /\ idxs[i].label = clean_label(schema.labels[i].k)
                 /\ DOMAIN idxs[i].propertyKeys = DOMAIN schema.labels[i].v
                 /\ \A j \in DOMAIN idxs[i].propertyKeys :
                      idxs[i].propertyKeys[j] =
                          [ key |-> schema.labels[i].v[j].name, metadataProp |-> FALSE ]

C4_Witness ==
    /\ pc = "hydrated"
    /\ Has(draft, "metadata")
    /\ draft.metadata.pathSegments # <<>>
    /\ schema = SchemaDelimited
    /\ draft.metadata # result.metadata

TargetFields == OptionalFields \cup DisplayFlags

\* C5: hydrate_perspective returns without error for every draft omitting any
\* subset of the optional top-level fields, and the document returned holds
\* every one of these fields.
C5_EveryFieldFilled ==
    (HydrateCalled /\ draft \in TopDrafts)
        => /\ ~IsError(result)
           /\ TargetFields \subseteq DOMAIN result

C5_OmittedListsStayAbsent ==
    /\ pc = "hydrated"
    /\ draft = NamedDraft
    /\ {"categories", "labels", "relationshipTypes", "templates"} \cap DOMAIN result = {}
    /\ {"id", "sceneActions", "palette", "metadata", "hiddenRelationshipTypes"}
         \subseteq DOMAIN result

\* the name of a property as the draft gives it: the bare string, or the
\* object's name
DraftPropertyName(p) == IF IsStr(p) THEN p ELSE p.name

\* C6: after hydration every category's captions list is non-empty; where the
\* draft's captions were missing or empty there is one caption, keyed by the
\* first property's name (a property caption) if the category has properties,
\* otherwise by the first label (a label caption) if it has labels, otherwise
\* by the literal "id".
C6_CaptionsNonEmpty ==
    HydrateReturned =>
        \A i \in DOMAIN DraftCats :
            LET cat == DraftCats[i]
                caps == result.categories[i].captions
            IN  /\ caps # <<>>
                /\ NeedsCaption(cat) =>
                     /\ Len(caps) = 1
                     /\ IF Truthy(cat, "properties")
                        THEN /\ caps[1].key = DraftPropertyName(cat.properties[1])
                             /\ caps[1].type = "property"
                        ELSE IF Truthy(cat, "labels")
                             THEN /\ caps[1].key = clean_label(cat.labels[1])
                                  /\ caps[1].type = "label"
                             ELSE caps[1].key = IdLiteral

C6_Witness ==
    /\ pc = "hydrated"
    /\ Len(DraftCats) = 2
    /\ DraftCats[1] = CatEmpty
    /\ result.categories[1].captions[1].key = IdLiteral
    /\ DraftCats[2] = CatProps
    /\ result.categories[2].captions[1].key = seller_id

\* C7 as stated: hydrating the scenario draft, whose category is given as
\* {label: "Seller"}, yields categories[0].captions[0].key == "Seller".
C7_ScenarioKeyIsSeller ==
    (HydrateReturned /\ draft = ScenarioDraft)
        => result.categories[1].captions[1].key = Seller

\* C7 as amended: the scenario draft as written yields the key "id", the
\* hydrator reading a category's labels list and not a label field; with the
\* category given as {labels: ["Seller"]} the key is "Seller".
C7_ScenarioKey ==
    /\ (HydrateReturned /\ draft = ScenarioDraft)
         => result.categories[1].captions[1].key = IdLiteral
    /\ (HydrateReturned /\ draft = ScenarioDraftLabels)
         => /\ result.categories[1].captions[1].key = Seller
            /\ result.categories[1].captions[1].type = "label"

C7_Witness ==
    /\ pc = "hydrated"
    /\ draft = ScenarioDraftLabels
    /\ schema = SchemaScenario
    /\ result.hiddenRelationshipTypes = << RETURNED >>
    /\ result.categories[1].id = 1

\* the fields of a category the hydrator rewrites
CategoryRewritten ==
    {"id", "createdAt", "lastEditedAt", "size", "icon", "styleRules", "textSize",
     "textAlign", "captionKeys", "labels", "properties", "captions"}

\* C8: a draft whose categories list has N entries is hydrated to N
\* categories, in the same order, the one at index i (from 0) with id i + 1,
\* whatever id it carried.
C8_CategoryIds ==
    HydrateReturned =>
        /\ DOMAIN Get(result, "categories", <<>>) = DOMAIN DraftCats
        /\ \A i \in DOMAIN DraftCats :
             /\ result.categories[i].id = (i - 1) + 1
             /\ \A k \in DOMAIN DraftCats[i] \ CategoryRewritten :
                  result.categories[i][k] = DraftCats[i][k]

C8_Witness ==
    /\ pc = "hydrated"
    /\ Len(DraftCats) = 2
    /\ Has(DraftCats[2], "id")
    /\ DraftCats[2].id = 7
    /\ result.categories[2].id = 2
    /\ ~Has(DraftCats[1], "id")

\* C9: the templates of a hydrated document have pairwise distinct ids when
\* the draft's templates carried none.
C9_TemplateIdsDistinct ==
    (HydrateReturned /\ \A i \in DOMAIN DraftTmpls : ~Has(DraftTmpls[i], "id"))
        => \A i, j \in DOMAIN DraftTmpls :
             i # j => result.templates[i].id # result.templates[j].id

C9_GeneratedIdsCollide ==
    /\ pc = "hydrated"
    /\ Len(DraftTmpls) = 2
    /\ ~Has(DraftTmpls[1], "id")
    /\ ~Has(DraftTmpls[2], "id")
    /\ result.templates[1].id = result.templates[2].id

\* a document without its createdAt/lastEditedAt values
TimeFields == {"createdAt", "lastEditedAt"}
WithoutTimes(d) == [k \in DOMAIN d \ TimeFields |-> d[k]]
StripTimes(doc) ==
    LET top == WithoutTimes(doc)
    IN  IF Has(top, "categories")
        THEN Put(top, "categories", Map(top.categories, WithoutTimes))
        ELSE top

\* C10: hydrating a hydrated document again, with the same schema and
\* relationship set, yields a document equal to the first in every field but
\* the createdAt/lastEditedAt values; the perspective id and every template
\* id are unchanged.
C10_IdempotentUpToTimes ==
    pc = "rehydrated" =>
        /\ ~IsError(result)
        /\ StripTimes(result) = StripTimes(first)
        /\ result.id = first.id
        /\ \A i \in DOMAIN Get(first, "templates", <<>>) :
             result.templates[i].id = first.templates[i].id

C10_Witness ==
    /\ pc = "rehydrated"
    /\ result.createdAt # first.createdAt
    /\ ~Has(draft, "id")
    /\ Len(DraftTmpls) = 2
    /\ ~Has(DraftTmpls[1], "id")
    /\ Has(DraftTmpls[1], "query")
    /\ Has(DraftTmpls[2], "params")
    /\ result.templates[1].id = first.templates[1].id

\* the run of main is over, normally or by an exception out of the loop
MainEnded == pc \in {"main_done", "main_raised", "main_write_failed"}
\* the position in perspectives_data of the draft whose turn raised, 0 if none
FailedAt ==
    IF pc \in {"main_raised", "main_write_failed"}
    THEN Len(perspectives_data) - Len(batch)
    ELSE 0
HasFile(d) == PathIndex(files, output_path(d.name)) # {}

\* C11: when the run over a batch is over, every draft other than the one
\* whose turn failed, and whose own hydration succeeds, has been hydrated and
\* written to its file, whatever its position in the batch.
C11_OthersStillWritten ==
    MainEnded =>
        \A i \in DOMAIN perspectives_data :
            (i # FailedAt /\ HydrateError(perspectives_data[i]) = "")
                => HasFile(perspectives_data[i])

\* C11, the case that fails: the hydrator raised on one draft, and a draft
\* after it, which hydrates without error, was never processed
C11_LaterDraftLost ==
    /\ pc = "main_raised"
    /\ IsError(result)
    /\ batch # <<>>
    /\ HydrateError(Head(batch)) = ""
    /\ ~HasFile(Head(batch))
    /\ Len(report) < Len(perspectives_data) - 1

\* C12: every document in storage, written by main or by the procedural
\* generator, went through hydrate_perspective exactly once before its write.
C12_WrittenHydratedOnce == \A i \in DOMAIN files : files[i].hydrated = 1

\* C12, the case that fails: the procedural generator wrote the document it
\* built, which never went through hydrate_perspective
C12_WrittenUnhydrated ==
    /\ pc = "generated"
    /\ Len(files) = 1
    /\ files[1].path = draft.output_file
    /\ files[1].doc = result
    /\ files[1].hydrated = 0

\* a configuration error was raised: the ValueError of fetch_schema or of
\* get_llm_client
ConfigErrorRaised ==
    \/ pc = "main_config_error"
    \/ pc = "main_fetch_failed" /\ result = Raise("ValueError")

\* C13: a run started with a required environment variable missing fails
\* with a configuration error, and no I/O (cache file read, database
\* connection or query, example file read) has taken place before the error.
C13_ConfigErrorBeforeIO ==
    (pc # "main" /\ env # EnvVars) => (ConfigErrorRaised /\ io = <<>>)

\* C13, the case that fails: the API key of the generation service is
\* missing, and the error is raised after the database was queried and the
\* example file read
C13_ClientErrorAfterIO ==
    /\ pc = "main_config_error"
    /\ env = EnvVars \ {"GEMINI_API_KEY"}
    /\ result = Raise("ValueError")
    /\ "db_connect" \in Range(io)
    /\ "db_query" \in Range(io)
    /\ "read_example" \in Range(io)

\* the generation service has answered and the answer was handled
Answered == pc \in {"main_parsed", "main_parse_error"}
\* the JSON document inside an answer
HasJson(text) == \E i \in DOMAIN text : IsJsonText(text[i])
JsonOf(text) == << text[CHOOSE i \in DOMAIN text : IsJsonText(text[i])] >>

\* C14: every answer that is a valid JSON document wrapped in a leading
\* and/or trailing code fence (with or without language tag, with or without
\* newlines around the fences) parses to the list the unfenced document
\* parses to, a bare object giving a one-element list.
C14_FenceStripped ==
    (Answered /\ HasJson(content))
        => /\ pc = "main_parsed"
           /\ perspectives_data = ParseAnswer(JsonOf(content)).list

\* C14, the case that fails: an opening fence without a language tag is not
\* stripped and the answer is rejected
C14_UntaggedFenceRejected ==
    /\ pc = "main_parse_error"
    /\ HasJson(content)
    /\ startswith(content, Fence \o Newline)
    /\ endswith(content, Newline \o Fence)
    /\ result = Raise("JSONDecodeError")

\* the keys of a document's root labels dictionary, and the labels its
\* categories list
LabelKeys(doc) == IF Has(doc, "labels") THEN ODKeys(doc.labels) ELSE {}
CategoryLabelsOf(doc) ==
    UNION { Range(Get(cat, "labels", <<>>)) : cat \in Range(Get(doc, "categories", <<>>)) }

\* C15: in every document produced, hydrated or built by the procedural
\* generator, every label of every category's labels list is a key of the
\* root labels dictionary.
C15_LabelsCoverCategories == Produced => CategoryLabelsOf(result) \subseteq LabelKeys(result)

\* C15, the case that fails: a hydrated document whose category lists a label
\* while the document has no labels dictionary
C15_CategoryLabelWithoutEntry ==
    /\ pc = "hydrated"
    /\ ~Has(draft, "labels")
    /\ ~Has(result, "labels")
    /\ Seller \in CategoryLabelsOf(result)

\* C16: clean_label(clean_label(x)) = clean_label(x) for a bare str, a
\* delimited str, a singleton list, a nested list and the empty list, and
\* what clean_label returns is a str without a backtick.
C16_CleanLabelIdempotent ==
    /\ pc \in {"cleaned", "recleaned"} => (IsStr(result) /\ Backtick \notin Range(result.str))
    /\ pc = "recleaned" => result = first

\* C16, its case: a nested list holding a delimited name was cleaned twice
C16_Witness ==
    /\ pc = "recleaned"
    /\ draft = L(<< L(<< S(<<Backtick, "B", Backtick>>), S(<<"a">>) >>) >>)
    /\ first = S(<<"B">>)
    /\ result = S(<<"B">>)

\* the property entries of the categories of a document
PropertiesOf(doc) ==
    UNION { Range(Get(cat, "properties", <<>>)) : cat \in Range(Get(doc, "categories", <<>>)) }
CoercedForm(p) ==
    /\ IsDict(p)
    /\ Has(p, "name")
    /\ Has(p, "exclude") /\ p.exclude = FALSE
    /\ Has(p, "dataType")

\* C17: in every document hydrate_perspective returns, every entry of every
\* category's properties has the form {name, exclude: false, dataType},
\* whether the draft gave it as a bare name or as an object.
C17_PropertiesCoerced == HydrateReturned => \A p \in PropertiesOf(result) : CoercedForm(p)

\* C17, the case that fails: a property given as an object with exclude true
\* and no dataType is in the hydrated document as it was given, next to a
\* bare name that was coerced
C17_ObjectPropertyKept ==
    /\ pc = "hydrated"
    /\ seller_id \in PropertiesOf(draft)
    /\ [name |-> seller_id, exclude |-> FALSE, dataType |-> "string"] \in PropertiesOf(result)
    /\ [name |-> seller_city, exclude |-> TRUE] \in PropertiesOf(draft)
    /\ [name |-> seller_city, exclude |-> TRUE] \in PropertiesOf(result)

\* the templates of the hydrated document, next to those of the draft
ResultTmpls == Get(result, "templates", <<>>)

\* C18 as stated: for every template of the draft, a query present in the
\* input is under cypher in the hydrated template, which has no query field
\* any more; a description present in the input is under text, and the
\* description field is gone; a template with neither description nor text
\* has its name as text, or "Search Phrase" when it has no name.
C18_TemplateRenamesAlways ==
    HydrateReturned =>
        \A i \in DOMAIN DraftTmpls :
            /\ Has(DraftTmpls[i], "query") =>
                   /\ ~Has(ResultTmpls[i], "query")
                   /\ ResultTmpls[i].cypher = DraftTmpls[i].query
            /\ Has(DraftTmpls[i], "description") =>
                   /\ ~Has(ResultTmpls[i], "description")
                   /\ ResultTmpls[i].text = DraftTmpls[i].description
            /\ (~Has(DraftTmpls[i], "description") /\ ~Has(DraftTmpls[i], "text")) =>
                   ResultTmpls[i].text = Get(DraftTmpls[i], "name", "Search Phrase")

\* C18 as amended: a query is renamed to cypher when the template has no
\* cypher field, and a template that has both keeps both as given; a
\* description is renamed to text when the template has no text field, and a
\* template that has both keeps both as given; a template with neither
\* description nor text has its name as text, or "Search Phrase" without name.
C18_TemplateRenames ==
    HydrateReturned =>
        \A i \in DOMAIN DraftTmpls :
            /\ (Has(DraftTmpls[i], "query") /\ ~Has(DraftTmpls[i], "cypher")) =>
                   /\ ~Has(ResultTmpls[i], "query")
                   /\ ResultTmpls[i].cypher = DraftTmpls[i].query
            /\ (Has(DraftTmpls[i], "query") /\ Has(DraftTmpls[i], "cypher")) =>
                   /\ Has(ResultTmpls[i], "query")
                   /\ ResultTmpls[i].query = DraftTmpls[i].query
                   /\ ResultTmpls[i].cypher = DraftTmpls[i].cypher
            /\ (Has(DraftTmpls[i], "description") /\ ~Has(DraftTmpls[i], "text")) =>
                   /\ ~Has(ResultTmpls[i], "description")
                   /\ ResultTmpls[i].text = DraftTmpls[i].description
            /\ (Has(DraftTmpls[i], "description") /\ Has(DraftTmpls[i], "text")) =>
                   /\ Has(ResultTmpls[i], "description")
                   /\ ResultTmpls[i].description = DraftTmpls[i].description
                   /\ ResultTmpls[i].text = DraftTmpls[i].text
            /\ (~Has(DraftTmpls[i], "description") /\ ~Has(DraftTmpls[i], "text")) =>
                   ResultTmpls[i].text = Get(DraftTmpls[i], "name", "Search Phrase")

\* C18, its cases: a template with query and description only was renamed,
\* and one that also has cypher and text was kept as given
C18_Witness ==
    /\ pc = "hydrated"
    /\ DraftTmpls = << TmplQuery, TmplBoth >>
    /\ ResultTmpls[1].cypher = TmplQuery.query
    /\ ResultTmpls[1].text = TmplQuery.description
    /\ DOMAIN ResultTmpls[1] \cap {"query", "description"} = {}
    /\ ResultTmpls[2].query = "Q" /\ ResultTmpls[2].cypher = "C"
    /\ ResultTmpls[2].description = "D" /\ ResultTmpls[2].text = "T"

\* C18, the default text: a template with only a name, and one with nothing
C18_DefaultText ==
    /\ pc = "hydrated"
    /\ DraftTmpls = << TmplNamed, TmplEmpty >>
    /\ ResultTmpls[1].text = "Top sellers"
    /\ ResultTmpls[2].text = "Search Phrase"

====
